---- MODULE Spec2Model ----
(***************************************************************************)
(* Model of lib/vm/src/compatability.rs: the API compatibility gate that   *)
(* checks a wasm module's import and export symbols against the two static *)
(* tables SUPPORTED_IMPORTS and REQUIRED_EXPORTS.                           *)
(*                                                                         *)
(* A wasm module (the bytes) is represented by what wasm_nm can read from  *)
(* it: whether it parses, and its symbol table (imports, exports and       *)
(* private functions, in file order).                                      *)
(***************************************************************************)
EXTENDS Naturals, Sequences, FiniteSets

\* ------------------------------------------------------------------ bounds

\* Edits applied to a test module before it is checked.
MaxEdits == 2
\* Longest enumerated symbol collection handed to the two primitives.
MaxLen == 3
\* Longest enumerated allow-list / required list handed to the primitives.
MaxList == 2
\* Number of concurrent check_api_compatibility invocations.
NumCallers == 2

\* --------------------------------------------------------------- constants

PUBLIC_SYMBOLS == [imports |-> TRUE, exports |-> TRUE, privates |-> FALSE, sizes |-> FALSE]

SUPPORTED_IMPORTS == <<"read_db", "write_db", "canonicalize_address", "humanize_address">>

REQUIRED_EXPORTS == <<"query", "init", "handle", "allocate", "deallocate", "cosmwasm_api_0_6">>

EXTRA_IMPORT_MSG == "WASM requires unsupported imports - version too new?"

MISSING_EXPORT_MSG == "WASM doesn't have required exports - version too old?"

\* ----------------------------------------------------------------- symbols

\* wasm_nm::Symbol variants (the size of an export is not read by this file).
Import(name) == [kind |-> "Import", name |-> name]

Export(name) == [kind |-> "Export", name |-> name]

Private(name) == [kind |-> "Private", name |-> name]

\* Result<()> of check_api_compatibility; a panic (unwrap on Err) is not a
\* return value, it is modelled as a third outcome.
Ok == [kind |-> "Ok", msg |-> ""]

ValidationErr(msg) == [kind |-> "ValidationErr", msg |-> msg]

Panic == [kind |-> "panic", msg |-> ""]

\* -------------------------------------------------------------- extraction

RECURSIVE SelectSymbols(_, _)
SelectSymbols(table, opts) ==
    IF table = <<>> THEN <<>>
    ELSE LET s == Head(table)
             keep == \/ s.kind = "Import" /\ opts.imports
                     \/ s.kind = "Export" /\ opts.exports
                     \/ s.kind = "Private" /\ opts.privates
         IN  (IF keep THEN <<s>> ELSE <<>>) \o SelectSymbols(Tail(table), opts)

\* wasm_nm::symbols(opts, reader): Err on bytes that do not parse, otherwise
\* the symbols of the kinds the options select, in table order.
wasm_nm_symbols(opts, wasm_code) ==
    IF wasm_code.wellformed
    THEN [ok |-> TRUE, symbols |-> SelectSymbols(wasm_code.table, opts)]
    ELSE [ok |-> FALSE, symbols |-> <<>>]

\* ------------------------------------------------------------- primitives

\* slice::contains
contains(slice, x) == \E i \in 1..Len(slice) : slice[i] = x

\* symbols.iter().filter_map(Import { name } => Some(name), _ => None).collect()
RECURSIVE required_imports(_)
required_imports(symbols) ==
    IF symbols = <<>> THEN <<>>
    ELSE LET s == Head(symbols)
         IN  (IF s.kind = "Import" THEN <<s.name>> ELSE <<>>)
                 \o required_imports(Tail(symbols))

\* Variant: the early return is inverted (true at the first supported import).
RECURSIVE all_supported_any(_, _)
all_supported_any(names, supported_imports) ==
    IF names = <<>> THEN FALSE
    ELSE IF contains(supported_imports, Head(names)) THEN TRUE
    ELSE all_supported_any(Tail(names), supported_imports)

\* for required_import in required_imports { if !supported.contains(..) { return false } } true
RECURSIVE all_supported(_, _)
all_supported(names, supported_imports) ==
    IF names = <<>> THEN TRUE
    ELSE IF ~contains(supported_imports, Head(names)) THEN FALSE
    ELSE all_supported(Tail(names), supported_imports)

\* Variant: the allow-list must match the imports exactly.
import_requirements_exact_match(symbols, supported_imports) ==
    /\ all_supported(required_imports(symbols), supported_imports)
    /\ \A i \in 1..Len(supported_imports) :
           contains(required_imports(symbols), supported_imports[i])

import_requirements_satisfied(symbols, supported_imports) ==
    all_supported(required_imports(symbols), supported_imports)

\* Variant: the match on the symbol kind is dropped.
RECURSIVE exports_any_kind(_)
exports_any_kind(symbols) ==
    IF symbols = <<>> THEN <<>>
    ELSE <<Head(symbols).name>> \o exports_any_kind(Tail(symbols))

\* symbols.iter().filter_map(Export { name, .. } => Some(name), _ => None).collect()
RECURSIVE exports(_)
exports(symbols) ==
    IF symbols = <<>> THEN <<>>
    ELSE LET s == Head(symbols)
         IN  (IF s.kind = "Export" THEN <<s.name>> ELSE <<>>)
                 \o exports(Tail(symbols))

\* Variant: the loop returns after its first iteration.
all_exported_first_only(required, names) ==
    IF required = <<>> THEN TRUE
    ELSE contains(names, Head(required))

\* Variant: required and exported names are compared position by position.
all_exported_positional(required, names) ==
    /\ Len(names) >= Len(required)
    /\ \A i \in 1..Len(required) : names[i] = required[i]

\* for i in required { if !exports.contains(&i) { return false } } true
RECURSIVE all_exported(_, _)
all_exported(required, names) ==
    IF required = <<>> THEN TRUE
    ELSE IF ~contains(names, Head(required)) THEN FALSE
    ELSE all_exported(Tail(required), names)

\* Variant: containment in the wrong direction (every export is required).
has_all_exports_reversed(symbols, required) ==
    all_exported(exports(symbols), required)

has_all_exports(symbols, required) ==
    all_exported(required, exports(symbols))

\* ------------------------------------------------------------- the checker

\* Variant: the export check is left out.
check_api_compatibility_imports_only(wasm_code) ==
    LET extracted == wasm_nm_symbols(PUBLIC_SYMBOLS, wasm_code)
    IN  IF ~extracted.ok THEN Panic
        ELSE IF ~import_requirements_satisfied(extracted.symbols, SUPPORTED_IMPORTS)
             THEN ValidationErr(EXTRA_IMPORT_MSG)
        ELSE Ok

\* Variant: the export check runs before the import check.
check_api_compatibility_exports_first(wasm_code) ==
    LET extracted == wasm_nm_symbols(PUBLIC_SYMBOLS, wasm_code)
    IN  IF ~extracted.ok THEN Panic
        ELSE IF ~has_all_exports(extracted.symbols, REQUIRED_EXPORTS)
             THEN ValidationErr(MISSING_EXPORT_MSG)
        ELSE IF ~import_requirements_satisfied(extracted.symbols, SUPPORTED_IMPORTS)
             THEN ValidationErr(EXTRA_IMPORT_MSG)
        ELSE Ok

check_api_compatibility(wasm_code) ==
    LET extracted == wasm_nm_symbols(PUBLIC_SYMBOLS, wasm_code)
    IN  IF ~extracted.ok THEN Panic
        ELSE IF ~import_requirements_satisfied(extracted.symbols, SUPPORTED_IMPORTS)
             THEN ValidationErr(EXTRA_IMPORT_MSG)
        ELSE IF ~has_all_exports(extracted.symbols, REQUIRED_EXPORTS)
             THEN ValidationErr(MISSING_EXPORT_MSG)
        ELSE Ok

\* ---------------------------------------------------------------- fixtures

\* testdata/contract_0.7.wasm: the reference contract, which must pass.
CONTRACT_0_7 ==
    [wellformed |-> TRUE,
     table |-> <<Import("read_db"), Import("write_db"),
                 Import("canonicalize_address"), Import("humanize_address"),
                 Export("query"), Export("init"), Export("handle"),
                 Export("allocate"), Export("deallocate"), Export("cosmwasm_api_0_6")>>]

\* testdata/contract_0.6.wasm: imports the outdated c_read and friends.
CONTRACT_0_6 ==
    [wellformed |-> TRUE,
     table |-> <<Import("c_read"), Import("c_write"),
                 Import("c_canonical_address"), Import("c_human_address"),
                 Export("query"), Export("init"), Export("handle"),
                 Export("allocate"), Export("deallocate"), Export("cosmwasm_api_0_6")>>]

\* wat2wasm(WAT_MISSING_EXPORTS): a module exporting only add_one.
WAT_MISSING_EXPORTS == [wellformed |-> TRUE, table |-> <<Export("add_one")>>]

\* A module that imports nothing and exports exactly the required set.
EXPORTS_ONLY ==
    [wellformed |-> TRUE,
     table |-> <<Export("query"), Export("init"), Export("handle"),
                 Export("allocate"), Export("deallocate"), Export("cosmwasm_api_0_6")>>]

\* Bytes wasm_nm cannot parse.
MALFORMED == [wellformed |-> FALSE, table |-> <<>>]

TestModules == {CONTRACT_0_7, CONTRACT_0_6, WAT_MISSING_EXPORTS, EXPORTS_ONLY, MALFORMED}

RemoveAt(s, i) == SubSeq(s, 1, i - 1) \o SubSeq(s, i + 1, Len(s))

SwapAt(s, i) == [k \in 1..Len(s) |-> IF k = i THEN s[i + 1] ELSE IF k = i + 1 THEN s[i] ELSE s[k]]

DuplicateAt(s, i) == SubSeq(s, 1, i) \o <<s[i]>> \o SubSeq(s, i + 1, Len(s))

\* contract_0.6.wasm without its deallocate export: fails both checks.
CONTRACT_0_6_NO_DEALLOCATE == [CONTRACT_0_6 EXCEPT !.table = RemoveAt(@, 9)]

\* The modules handed to the concurrent callers.
CallerModules == TestModules \cup {CONTRACT_0_6_NO_DEALLOCATE}

Callers == 1..NumCallers

\* The lists the unit tests hand to the two primitives.
TestLists ==
    {<<"c_read", "c_write">>,
     <<"c_read", "c_write", "c_canonical_address", "c_human_address">>,
     <<"c_read", "c_write", "c_canonical_address", "c_human_address", "future_function">>,
     <<"init", "handle", "allocate">>,
     REQUIRED_EXPORTS,
     <<"init", "handle", "extra">>}

\* Symbols a test module is edited with: a supported import name, an
\* unsupported one, a required export name and an unrelated one.
EditNames == {"read_db", "legacy_read", "query", "add_one"}

EditSymbols ==
    {Import(n) : n \in EditNames} \cup {Export(n) : n \in EditNames} \cup {Private("query")}

\* Names of the enumerated lists handed to the two primitives, and the
\* symbols of the enumerated collections ("handle" is carried by no symbol).
PrimNames == {"init", "handle", "extra"}

PrimSymbolNames == {"init", "extra"}

PrimSymbols ==
    {Import(n) : n \in PrimSymbolNames} \cup {Export(n) : n \in PrimSymbolNames}
        \cup {Private("init")}

SeqsUpTo(S, n) == UNION {[1..k -> S] : k \in 0..n}

\* ------------------------------------------------------------ test harness

VARIABLES
    harness,        \* "api": check_api_compatibility on a module; "prim": the two
                    \* primitives; "conc": concurrent callers
    wasm_code,      \* api: the module handed to check_api_compatibility
    edits,          \* api: number of edits applied to the module so far
    symbols,        \* prim: the symbol collection handed to the primitives
    list,           \* prim: the allow-list / required list handed to the primitives
    verdict,        \* <<>> or <<r>>, r returned by check_api_compatibility(wasm_code)
    imports_good,   \* <<>> or <<b>>, b returned by import_requirements_satisfied(symbols, list)
    exports_good,   \* <<>> or <<b>>, b returned by has_all_exports(symbols, list)
    supported_mem,  \* contents of the static SUPPORTED_IMPORTS
    required_mem,   \* contents of the static REQUIRED_EXPORTS
    pc,             \* conc: each caller's position in check_api_compatibility
    code,           \* conc: each caller's wasm_code argument
    syms,           \* conc: each caller's local `symbols`
    evaluated,      \* conc: the checks each call has evaluated so far
    ret             \* conc: <<>> or <<r>>, the outcome of each caller's call

testVars == <<harness, wasm_code, edits, symbols, list, verdict, imports_good, exports_good>>

callVars == <<pc, code, syms, evaluated, ret>>

statics == <<supported_mem, required_mem>>

vars == <<testVars, statics, callVars>>

NotCalled == verdict = <<>> /\ imports_good = <<>> /\ exports_good = <<>>

StaticsInit ==
    /\ supported_mem = SUPPORTED_IMPORTS
    /\ required_mem = REQUIRED_EXPORTS

NoCallers ==
    /\ pc = [c \in Callers |-> "idle"]
    /\ code = [c \in Callers |-> MALFORMED]
    /\ syms = [c \in Callers |-> <<>>]
    /\ evaluated = [c \in Callers |-> {}]
    /\ ret = [c \in Callers |-> <<>>]

Init ==
    /\ StaticsInit
    /\ NoCallers
    /\ edits = 0
    /\ verdict = <<>>
    /\ imports_good = <<>>
    /\ exports_good = <<>>
    /\ \/ /\ harness = "api"
          /\ wasm_code \in TestModules
          /\ symbols = <<>>
          /\ list = <<>>
       \/ /\ harness = "prim"
          /\ wasm_code = MALFORMED
          /\ \/ /\ symbols \in SeqsUpTo(PrimSymbols, MaxLen)
                /\ list \in SeqsUpTo(PrimNames, MaxList)
             \/ /\ symbols = wasm_nm_symbols(PUBLIC_SYMBOLS, CONTRACT_0_6).symbols
                /\ list \in TestLists

\* --- building the module under test

Editable ==
    /\ harness = "api"
    /\ wasm_code.wellformed
    /\ edits < MaxEdits
    /\ NotCalled

SetTable(table) ==
    /\ wasm_code' = [wasm_code EXCEPT !.table = table]
    /\ edits' = edits + 1
    /\ UNCHANGED <<harness, symbols, list, verdict, imports_good, exports_good>>
    /\ UNCHANGED <<statics, callVars>>

AppendSymbol ==
    /\ Editable
    /\ \E sym \in EditSymbols : SetTable(Append(wasm_code.table, sym))

RemoveSymbol ==
    /\ Editable
    /\ \E i \in 1..Len(wasm_code.table) : SetTable(RemoveAt(wasm_code.table, i))

SwapSymbols ==
    /\ Editable
    /\ \E i \in 1..(Len(wasm_code.table) - 1) : SetTable(SwapAt(wasm_code.table, i))

DuplicateSymbol ==
    /\ Editable
    /\ \E i \in 1..Len(wasm_code.table) : SetTable(DuplicateAt(wasm_code.table, i))

\* --- the calls

Call_check_api_compatibility ==
    /\ harness = "api"
    /\ verdict = <<>>
    /\ verdict' = <<check_api_compatibility(wasm_code)>>
    /\ UNCHANGED <<harness, wasm_code, edits, symbols, list, imports_good, exports_good>>
    /\ UNCHANGED <<statics, callVars>>

Call_import_requirements_satisfied ==
    /\ harness = "prim"
    /\ imports_good = <<>>
    /\ imports_good' = <<import_requirements_satisfied(symbols, list)>>
    /\ UNCHANGED <<harness, wasm_code, edits, symbols, list, verdict, exports_good>>
    /\ UNCHANGED <<statics, callVars>>

Call_has_all_exports ==
    /\ harness = "prim"
    /\ exports_good = <<>>
    /\ exports_good' = <<has_all_exports(symbols, list)>>
    /\ UNCHANGED <<harness, wasm_code, edits, symbols, list, verdict, imports_good>>
    /\ UNCHANGED <<statics, callVars>>

Next ==
    \/ AppendSymbol
    \/ RemoveSymbol
    \/ SwapSymbols
    \/ DuplicateSymbol
    \/ Call_check_api_compatibility
    \/ Call_import_requirements_satisfied
    \/ Call_has_all_exports

Spec == Init /\ [][Next]_vars

\* ------------------------------------------------------ concurrent callers

\* Each caller runs check_api_compatibility on its own bytes, one statement
\* at a time: extract (line 39), import check (40-45), export check (46-51),
\* return Ok (52).  The two tables are read from the statics.

ConcInit ==
    /\ StaticsInit
    /\ harness = "conc"
    /\ wasm_code = MALFORMED
    /\ edits = 0
    /\ symbols = <<>>
    /\ list = <<>>
    /\ verdict = <<>>
    /\ imports_good = <<>>
    /\ exports_good = <<>>
    /\ pc = [c \in Callers |-> "extract"]
    /\ code \in [Callers -> CallerModules]
    /\ syms = [c \in Callers |-> <<>>]
    /\ evaluated = [c \in Callers |-> {}]
    /\ ret = [c \in Callers |-> <<>>]

\* Variant: unwrap_or_default instead of unwrap.
Extract_unwrap_or_default(c) ==
    /\ pc[c] = "extract"
    /\ syms' = [syms EXCEPT ![c] = wasm_nm_symbols(PUBLIC_SYMBOLS, code[c]).symbols]
    /\ pc' = [pc EXCEPT ![c] = "import_check"]
    /\ UNCHANGED <<testVars, statics, code, evaluated, ret>>

Extract(c) ==
    /\ pc[c] = "extract"
    /\ LET extracted == wasm_nm_symbols(PUBLIC_SYMBOLS, code[c])
       IN  IF extracted.ok
           THEN /\ syms' = [syms EXCEPT ![c] = extracted.symbols]
                /\ pc' = [pc EXCEPT ![c] = "import_check"]
                /\ ret' = ret
           ELSE /\ syms' = syms
                /\ pc' = [pc EXCEPT ![c] = "panicked"]
                /\ ret' = [ret EXCEPT ![c] = <<Panic>>]
    /\ UNCHANGED <<testVars, statics, code, evaluated>>

\* Variant: the symbols live in one buffer shared by all callers.
ImportCheck_shared_symbols(c) ==
    /\ pc[c] = "import_check"
    /\ evaluated' = [evaluated EXCEPT ![c] = @ \cup {"import"}]
    /\ IF ~import_requirements_satisfied(syms[1], supported_mem)
       THEN /\ ret' = [ret EXCEPT ![c] = <<ValidationErr(EXTRA_IMPORT_MSG)>>]
            /\ pc' = [pc EXCEPT ![c] = "returned"]
       ELSE /\ ret' = ret
            /\ pc' = [pc EXCEPT ![c] = "export_check"]
    /\ UNCHANGED <<testVars, statics, code, syms>>

ImportCheck(c) ==
    /\ pc[c] = "import_check"
    /\ evaluated' = [evaluated EXCEPT ![c] = @ \cup {"import"}]
    /\ IF ~import_requirements_satisfied(syms[c], supported_mem)
       THEN /\ ret' = [ret EXCEPT ![c] = <<ValidationErr(EXTRA_IMPORT_MSG)>>]
            /\ pc' = [pc EXCEPT ![c] = "returned"]
       ELSE /\ ret' = ret
            /\ pc' = [pc EXCEPT ![c] = "export_check"]
    /\ UNCHANGED <<testVars, statics, code, syms>>

ExportCheck(c) ==
    /\ pc[c] = "export_check"
    /\ evaluated' = [evaluated EXCEPT ![c] = @ \cup {"export"}]
    /\ IF ~has_all_exports(syms[c], required_mem)
       THEN /\ ret' = [ret EXCEPT ![c] = <<ValidationErr(MISSING_EXPORT_MSG)>>]
            /\ pc' = [pc EXCEPT ![c] = "returned"]
       ELSE /\ ret' = ret
            /\ pc' = [pc EXCEPT ![c] = "return_ok"]
    /\ UNCHANGED <<testVars, statics, code, syms>>

ReturnOk(c) ==
    /\ pc[c] = "return_ok"
    /\ ret' = [ret EXCEPT ![c] = <<Ok>>]
    /\ pc' = [pc EXCEPT ![c] = "returned"]
    /\ UNCHANGED <<testVars, statics, code, syms, evaluated>>

ConcNext ==
    \/ \E c \in Callers : Extract(c)
    \/ \E c \in Callers : ImportCheck(c)
    \/ \E c \in Callers : ExportCheck(c)
    \/ \E c \in Callers : ReturnOk(c)

ConcSpec == ConcInit /\ [][ConcNext]_vars

\* ================================================================== claims

\* The set of entries of a list.
Range(s) == {s[i] : i \in 1..Len(s)}

\* The names carried by the Import / Export symbols of a collection.
ImportNames(s) == {s[i].name : i \in {j \in 1..Len(s) : s[j].kind = "Import"}}

ExportNames(s) == {s[i].name : i \in {j \in 1..Len(s) : s[j].kind = "Export"}}

Reverse(s) == [k \in 1..Len(s) |-> s[Len(s) + 1 - k]]

InsertAt(s, i, x) == SubSeq(s, 1, i - 1) \o <<x>> \o SubSeq(s, i, Len(s))

RECURSIVE Permutations(_)
Permutations(s) ==
    IF s = <<>> THEN {<<>>}
    ELSE UNION {{InsertAt(p, i, Head(s)) : i \in 1..Len(s)} : p \in Permutations(Tail(s))}

\* All permutations of a short sequence; for a long one its adjacent
\* transpositions (which generate every permutation) and its reversal.
Rearranged(s, n) ==
    IF Len(s) <= n THEN Permutations(s)
    ELSE {SwapAt(s, i) : i \in 1..(Len(s) - 1)} \cup {Reverse(s)}

Duplicated(s) == {DuplicateAt(s, i) : i \in 1..Len(s)} \cup {s \o <<s[i]>> : i \in 1..Len(s)}

ApiChecked == harness = "api" /\ verdict # <<>> /\ wasm_code.wellformed

WithTable(table) == [wasm_code EXCEPT !.table = table]

\* C1: for a parseable module, check_api_compatibility returns Ok if and only
\* if every Import name is in SUPPORTED_IMPORTS and every name of
\* REQUIRED_EXPORTS is among the Export names.
C1_AcceptedIffBothContainments ==
    ApiChecked =>
        (verdict[1] = Ok <=>
            /\ ImportNames(wasm_code.table) \subseteq Range(SUPPORTED_IMPORTS)
            /\ Range(REQUIRED_EXPORTS) \subseteq ExportNames(wasm_code.table))

\* An accepted module with an export beyond the required set and with a
\* supported import it does not use.
C1_Witness ==
    /\ ApiChecked
    /\ verdict[1] = Ok
    /\ ExportNames(wasm_code.table) \ Range(REQUIRED_EXPORTS) # {}
    /\ Range(SUPPORTED_IMPORTS) \ ImportNames(wasm_code.table) # {}

\* C2: a parseable module with an Import name outside SUPPORTED_IMPORTS gets
\* the unsupported-import failure, whatever its exports are.
C2_UnsupportedImportWins ==
    (ApiChecked /\ ~(ImportNames(wasm_code.table) \subseteq Range(SUPPORTED_IMPORTS)))
        => verdict[1] = ValidationErr(EXTRA_IMPORT_MSG)

\* A module failing both checks, reported as an import failure.
C2_Witness ==
    /\ ApiChecked
    /\ ~(ImportNames(wasm_code.table) \subseteq Range(SUPPORTED_IMPORTS))
    /\ ~(Range(REQUIRED_EXPORTS) \subseteq ExportNames(wasm_code.table))
    /\ verdict[1] = ValidationErr(EXTRA_IMPORT_MSG)

\* C3: a parseable module whose imports are all supported but which lacks a
\* required export gets the missing-export failure.
C3_MissingExportReported ==
    (/\ ApiChecked
     /\ ImportNames(wasm_code.table) \subseteq Range(SUPPORTED_IMPORTS)
     /\ ~(Range(REQUIRED_EXPORTS) \subseteq ExportNames(wasm_code.table)))
        => verdict[1] = ValidationErr(MISSING_EXPORT_MSG)

\* A module missing only deallocate, rejected with the missing-export message.
C3_Witness ==
    /\ ApiChecked
    /\ ImportNames(wasm_code.table) # {}
    /\ Range(REQUIRED_EXPORTS) \ ExportNames(wasm_code.table) = {"deallocate"}
    /\ verdict[1] = ValidationErr(MISSING_EXPORT_MSG)

\* C4: import_requirements_satisfied(S, A) is true if and only if every name
\* carried by an Import symbol of S occurs in A.
C4_ImportsSatisfiedIffSubset ==
    (harness = "prim" /\ imports_good # <<>>) =>
        (imports_good[1] <=> ImportNames(symbols) \subseteq Range(list))

\* A satisfied call where the allow-list has a name that is not imported.
C4_Witness ==
    /\ harness = "prim"
    /\ imports_good = <<TRUE>>
    /\ ImportNames(symbols) # {}
    /\ Range(list) \ ImportNames(symbols) # {}

\* C5: has_all_exports(S, R) is true if and only if every name of R is
\* carried by some Export symbol of S.
C5_HasAllExportsIffSubset ==
    (harness = "prim" /\ exports_good # <<>>) =>
        (exports_good[1] <=> Range(list) \subseteq ExportNames(symbols))

\* A true call on a non-empty required list with exports beyond it.
C5_Witness ==
    /\ harness = "prim"
    /\ exports_good = <<TRUE>>
    /\ list # <<>>
    /\ ExportNames(symbols) \ Range(list) # {}

\* C9: an Import symbol never counts toward the required exports, and an
\* Export symbol is never tested against the supported imports.
C9_SymbolsCheckedInOwnRole ==
    /\ (/\ harness = "prim"
        /\ exports_good # <<>>
        /\ \E n \in Range(list) : n \in ImportNames(symbols) /\ n \notin ExportNames(symbols))
           => exports_good[1] = FALSE
    /\ (/\ harness = "prim"
        /\ imports_good # <<>>
        /\ ImportNames(symbols) \subseteq Range(list)
        /\ ~(ExportNames(symbols) \subseteq Range(list)))
           => imports_good[1] = TRUE
    /\ (/\ ApiChecked
        /\ \E n \in Range(REQUIRED_EXPORTS) :
               n \in ImportNames(wasm_code.table) /\ n \notin ExportNames(wasm_code.table))
           => verdict[1] # Ok
    /\ (/\ ApiChecked
        /\ ImportNames(wasm_code.table) \subseteq Range(SUPPORTED_IMPORTS))
           => verdict[1] # ValidationErr(EXTRA_IMPORT_MSG)

\* Every required name but one is exported, the remaining one is only
\* imported, and has_all_exports has returned false.
C9_Witness ==
    /\ harness = "prim"
    /\ exports_good = <<FALSE>>
    /\ list # <<>>
    /\ Range(list) \subseteq ImportNames(symbols) \cup ExportNames(symbols)
    /\ \E n \in Range(list) : n \in ImportNames(symbols) /\ n \notin ExportNames(symbols)
    /\ imports_good = <<TRUE>>
    /\ ~(ExportNames(symbols) \subseteq Range(list))

\* C6: the outcome of import_requirements_satisfied, of has_all_exports and
\* of check_api_compatibility is unchanged when the symbol collection is
\* permuted or a symbol in it is duplicated, and when the list is permuted.
C6_OrderAndDuplicatesIrrelevant ==
    /\ (harness = "prim" /\ imports_good # <<>>) =>
           /\ \A s \in Rearranged(symbols, MaxLen) \cup Duplicated(symbols) :
                  import_requirements_satisfied(s, list) = imports_good[1]
           /\ \A l \in Rearranged(list, MaxList) \cup Duplicated(list) :
                  import_requirements_satisfied(symbols, l) = imports_good[1]
    /\ (harness = "prim" /\ exports_good # <<>>) =>
           /\ \A s \in Rearranged(symbols, MaxLen) \cup Duplicated(symbols) :
                  has_all_exports(s, list) = exports_good[1]
           /\ \A l \in Rearranged(list, MaxList) \cup Duplicated(list) :
                  has_all_exports(symbols, l) = exports_good[1]
    /\ ApiChecked =>
           \A tb \in Rearranged(wasm_code.table, 0) \cup Duplicated(wasm_code.table) :
               check_api_compatibility(WithTable(tb)) = verdict[1]

\* has_all_exports has returned true on a collection whose exports are not
\* in the order of the required list, with an import in between.
C6_Witness ==
    /\ harness = "prim"
    /\ exports_good = <<TRUE>>
    /\ imports_good = <<TRUE>>
    /\ Len(list) = 2
    /\ list[1] # list[2]
    /\ Len(symbols) = 3
    /\ symbols[1] = Export(list[2])
    /\ symbols[2].kind = "Import"
    /\ symbols[3] = Export(list[1])

\* C10: a true import_requirements_satisfied stays true when the allow-list
\* grows, when Import symbols are removed and when Export symbols are added;
\* a true has_all_exports stays true for every sub-list of the required list
\* and when symbols of any kind are added; an accepted module stays accepted
\* when exports are added to it or imports are removed from it.
C10_Monotone ==
    /\ (harness = "prim" /\ imports_good = <<TRUE>>) =>
           /\ \A l \in SeqsUpTo(PrimNames, MaxList) :
                  Range(list) \subseteq Range(l) => import_requirements_satisfied(symbols, l)
           /\ \A n \in PrimNames \cup {"future_function"} :
                  /\ import_requirements_satisfied(symbols, Append(list, n))
                  /\ import_requirements_satisfied(symbols, <<n>> \o list)
           /\ \A i \in 1..Len(symbols) :
                  symbols[i].kind = "Import"
                      => import_requirements_satisfied(RemoveAt(symbols, i), list)
           /\ \A n \in PrimNames :
                  /\ import_requirements_satisfied(Append(symbols, Export(n)), list)
                  /\ import_requirements_satisfied(<<Export(n)>> \o symbols, list)
    /\ (harness = "prim" /\ exports_good = <<TRUE>>) =>
           /\ \A l \in SeqsUpTo(PrimNames, MaxList) :
                  Range(l) \subseteq Range(list) => has_all_exports(symbols, l)
           /\ \A i \in 1..Len(list) : has_all_exports(symbols, RemoveAt(list, i))
           /\ \A sym \in PrimSymbols :
                  /\ has_all_exports(Append(symbols, sym), list)
                  /\ has_all_exports(<<sym>> \o symbols, list)
    /\ (ApiChecked /\ verdict[1] = Ok) =>
           /\ \A n \in EditNames :
                  check_api_compatibility(WithTable(Append(wasm_code.table, Export(n)))) = Ok
           /\ \A i \in 1..Len(wasm_code.table) :
                  wasm_code.table[i].kind = "Import"
                      => check_api_compatibility(WithTable(RemoveAt(wasm_code.table, i))) = Ok

\* A satisfied import check whose allow-list can still grow and whose
\* collection still has an import to remove.
C10_Witness ==
    /\ harness = "prim"
    /\ imports_good = <<TRUE>>
    /\ exports_good = <<TRUE>>
    /\ ImportNames(symbols) # {}
    /\ list # <<>>
    /\ PrimNames \ Range(list) # {}

CallerDone(c) == pc[c] \in {"returned", "panicked"}

\* C7: when the extractor fails on the bytes, the call ends in the panic of
\* unwrap: it returns neither Ok nor a ValidationErr, and neither the import
\* check nor the export check is evaluated.
C7_MalformedIsFatal ==
    \A c \in Callers :
        ~code[c].wellformed =>
            /\ pc[c] \in {"extract", "panicked"}
            /\ evaluated[c] = {}
            /\ syms[c] = <<>>
            /\ ret[c] = IF pc[c] = "panicked" THEN <<Panic>> ELSE <<>>

\* A call on malformed bytes has ended.
C7_Witness ==
    \E c \in Callers : ~code[c].wellformed /\ pc[c] = "panicked" /\ ret[c] = <<Panic>>

\* C8: in every interleaving each concurrent call ends with the verdict the
\* same call gives when run alone, and the two tables keep their contents.
C8_CallersIndependent ==
    /\ supported_mem = SUPPORTED_IMPORTS
    /\ required_mem = REQUIRED_EXPORTS
    /\ \A c \in Callers :
           ret[c] = IF CallerDone(c) THEN <<check_api_compatibility(code[c])>> ELSE <<>>

\* All calls have ended, with an accepted and a rejected module among them.
C8_Witness ==
    /\ \A c \in Callers : CallerDone(c)
    /\ \E c, d \in Callers :
           /\ ret[c] = <<Ok>>
           /\ ret[d] = <<ValidationErr(EXTRA_IMPORT_MSG)>>
           /\ c < d

====
